---------------------------- MODULE Spec2Model ----------------------------
(***************************************************************************)
(* Model of get_weather_data_from_JMA.py: main() walks every calendar day  *)
(* from 2009-01-01 to today, fetch_data() sleeps, issues one GET, parses   *)
(* the table of class data2_s into 12-field records, and main() writes one *)
(* CSV file per month that produced records.                               *)
(*                                                                         *)
(* Text is a sequence of characters.  The two characters of the header     *)
(* marker (ji, fun: "hour", "minute") are written "JI" and "FUN".          *)
(***************************************************************************)
EXTENDS Integers, Sequences, FiniteSets, TLC

\* ------------------------------------------------------------- bounds
\* Short runs: today is one of the first MaxRunDays days from the start date.
MaxRunDays == 33
\* Long runs: today reaches into February and March of MaxYear.
MaxYear == 2012
\* Tables handed to a direct call of fetch_data have at most MaxRows rows.
MaxRows == 3

\* -------------------------------------------------- program constants
start_year == 2009
start_month == 1
start_day == 1
MinDelay == 1
MaxDelay == 3
StatusOK == 200
MinCells == 11
RecordLen == 12
prec_no == 44
block_no == 47662

\* ------------------------------------------------------------ calendar
isleap(y) == (y % 4 = 0 /\ y % 100 # 0) \/ y % 400 = 0

\* calendar.monthrange(year, month)[1]
monthrange(y, m) ==
    IF m = 2 THEN (IF isleap(y) THEN 29 ELSE 28)
    ELSE IF m \in {4, 6, 9, 11} THEN 30 ELSE 31

\* ---------------------------------------------------------------- text
DigitChars == <<"0", "1", "2", "3", "4", "5", "6", "7", "8", "9">>

RECURSIVE Str(_)
\* f"{n}" of a natural number
Str(n) ==
    IF n < 10 THEN <<DigitChars[n + 1]>>
    ELSE Str(n \div 10) \o <<DigitChars[(n % 10) + 1]>>

\* f"{n:02d}"
Pad2(n) == IF n < 10 THEN <<"0">> \o Str(n) ELSE Str(n)

\* f"{year}{month:02d}{day:02d}"
DateStr(y, m, d) == Str(y) \o Pad2(m) \o Pad2(d)

\* f"{year}{month:02d}.csv"
Filename(y, m) == Str(y) \o Pad2(m) \o <<".", "c", "s", "v">>

\* The query of the request URL, the fixed host and path left out.
Url(y, m, d) ==
    [prec_no |-> Str(prec_no), block_no |-> Str(block_no),
     year |-> Str(y), month |-> Pad2(m), day |-> Pad2(d)]

Marker == <<"JI", "FUN">>

\* Python's  sub in text
Contains(text, sub) ==
    \E i \in 0..(Len(text) - Len(sub)) : SubSeq(text, i + 1, i + Len(sub)) = sub

RECURSIVE LStrip(_)
LStrip(t) == IF t # <<>> /\ Head(t) = " " THEN LStrip(Tail(t)) ELSE t

RECURSIVE RStrip(_)
RStrip(t) ==
    IF t # <<>> /\ t[Len(t)] = " " THEN RStrip(SubSeq(t, 1, Len(t) - 1)) ELSE t

\* col.get_text(strip=True) of a cell holding one run of text
get_text(cell) == RStrip(LStrip(cell))

\* ------------------------------------------------------------- parsing
\* fetch_data's  return None
None == [none |-> TRUE]

\* soup.find("table", attrs={"class": "data2_s"}) found nothing
NoTable == [found |-> FALSE]

\* the rows of the table soup.find found
Table(rows) == [found |-> TRUE, rows |-> rows]

Columns ==
    <<"date", "time", "pressure_local", "pressure_sea", "precipitation_mm",
      "temperature", "humidity", "wind_mean", "wind_dir_mean",
      "wind_gust", "wind_dir_gust", "sunshine">>

cols_text(row) == [i \in 1..Len(row) |-> get_text(row[i])]

\* the first cell is compared with the marker instead of searched for it
Skipped_equal(ct) == ct = <<>> \/ ct[1] = Marker

\* if not cols_text or marker in cols_text[0]: continue
Skipped(ct) == ct = <<>> \/ Contains(ct[1], Marker)

\* if len(cols_text) >= 11
Kept(ct) == ~Skipped(ct) /\ Len(ct) >= MinCells

\* the row is not cut to its first 12 fields
RowRecord_uncut(ct, date) == <<date>> \o ct

\* cols_text.insert(0, date); cols_text[:12]
RowRecord(ct, date) ==
    LET full == <<date>> \o ct
    IN  SubSeq(full, 1, IF Len(full) < RecordLen THEN Len(full) ELSE RecordLen)

RECURSIVE ParseRows(_, _)
\* the loop over table.find_all("tr")
ParseRows(rows, date) ==
    IF rows = <<>> THEN <<>>
    ELSE LET ct == cols_text(Head(rows))
         IN  (IF Kept(ct) THEN <<RowRecord(ct, date)>> ELSE <<>>)
             \o ParseRows(Tail(rows), date)

\* pd.DataFrame(data, columns=[...])
DataFrame(data) == [none |-> FALSE, columns |-> Columns, rows |-> data]

\* df.empty
Empty(df) == df.rows = <<>>

\* the status of the response is not looked at
FetchResult_ignores_status(y, m, d, resp) ==
    IF ~resp.table.found THEN None
    ELSE DataFrame(ParseRows(resp.table.rows, DateStr(y, m, d)))

\* what fetch_data returns for a response
FetchResult(y, m, d, resp) ==
    IF resp.status # StatusOK THEN None
    ELSE IF ~resp.table.found THEN None
    ELSE DataFrame(ParseRows(resp.table.rows, DateStr(y, m, d)))

\* nothing is printed when the table is missing
FetchLog_silent_on_missing_table(y, m, d, resp) ==
    IF resp.status # StatusOK THEN <<<<"fetch_failed", y, m, d, resp.status>>>> ELSE <<>>

\* what fetch_data prints after the response arrived
FetchLog(y, m, d, resp) ==
    IF resp.status # StatusOK THEN <<<<"fetch_failed", y, m, d, resp.status>>>>
    ELSE IF ~resp.table.found THEN <<<<"table_not_found", y, m, d>>>>
    ELSE <<>>

RECURSIVE ConcatRows_reversed(_)
\* the days are concatenated last to first
ConcatRows_reversed(dfs) ==
    IF dfs = <<>> THEN <<>> ELSE ConcatRows_reversed(Tail(dfs)) \o Head(dfs).rows

RECURSIVE ConcatRows(_)
\* pd.concat(monthly_data, ignore_index=True)
ConcatRows(dfs) ==
    IF dfs = <<>> THEN <<>> ELSE Head(dfs).rows \o ConcatRows(Tail(dfs))

concat(dfs) == [none |-> FALSE, columns |-> Head(dfs).columns, rows |-> ConcatRows(dfs)]

\* df.to_csv(filename, index=False, encoding="utf-8-sig"): the lines of the file
to_csv(df) == [bom |-> TRUE, lines |-> <<df.columns>> \o df.rows]

\* ---------------------------------------------------------- environment
\* A table row of n cells: the first cell holds `first`, cell i holds " i ".
Row(first, n) == [i \in 1..n |-> IF i = 1 THEN first ELSE <<" ">> \o Str(i) \o <<" ">>]

TimeCell == <<" ", "0", "0", ":", "1", "0", " ">>
TimeCell2 == <<"0", "0", ":", "2", "0">>
HeaderCell == <<" ", "(", "JI", "FUN", ")", " ">>
HalfMarkerCell == <<"JI", ":", "FUN">>

\* The page of a day with observations: two header rows (the second one short),
\* an 11-cell row, a 9-cell row and a 13-cell row.
TableData ==
    <<Row(HeaderCell, 11), Row(<<"h", "P", "a">>, 8), Row(TimeCell, 11),
      Row(TimeCell2, 9), Row(TimeCell2, 13)>>

\* The page of a day with one observation, in a 12-cell row.
TableData2 == <<Row(HeaderCell, 11), Row(TimeCell2, 12)>>

\* The page of a day without observations: header rows and a 10-cell row.
TableNoData == <<Row(HeaderCell, 11), Row(<<"h", "P", "a">>, 8), Row(TimeCell, 10)>>

Response(status, table) == [status |-> status, table |-> table]

\* An error page (which carries a table all the same) and a page without the table.
FailResponses == {Response(404, Table(TableData)), Response(StatusOK, NoTable)}

Responses ==
    FailResponses
    \cup {Response(StatusOK, Table(TableData)), Response(StatusOK, Table(TableData2)),
          Response(StatusOK, Table(TableNoData))}

\* The site serves one page for all the dates whose month and day have the
\* same parities.
SiteKey(m, d) == <<m % 2, d % 2>>

\* The day after a date, by the calendar.
NextDate(t) ==
    IF t[3] < monthrange(t[1], t[2]) THEN <<t[1], t[2], t[3] + 1>>
    ELSE IF t[2] < 12 THEN <<t[1], t[2] + 1, 1>>
    ELSE <<t[1] + 1, 1, 1>>

RECURSIVE AddDays(_, _)
AddDays(t, k) == IF k = 0 THEN t ELSE AddDays(NextDate(t), k - 1)

StartDate == <<start_year, start_month, start_day>>

\* datetime.date.today() of a short run: the first two days, and the last three
\* of the first MaxRunDays days.
ShortRunDates ==
    {AddDays(StartDate, k) : k \in {0, 1} \cup ((MaxRunDays - 3)..(MaxRunDays - 1))}

\* datetime.date.today() of a long run: around the first change of year, and
\* past the end of February of MaxYear.
LongRunDates ==
    {<<start_year, 12, 31>>, <<start_year + 1, 1, 1>>, <<MaxYear, 3, 1>>}

\* A direct call of fetch_data: the dates and the pages it is given.
DirectDates == {<<2023, 5, 10>>, <<2009, 12, 1>>}

RowPool ==
    {<<>>, Row(HalfMarkerCell, 11)}
    \cup {Row(f, n) : f \in {TimeCell, HeaderCell}, n \in {9, 10, 11, 12}}

RECURSIVE SeqsUpTo(_, _)
\* the sequences over S of length at most n
SeqsUpTo(S, n) ==
    IF n = 0 THEN {<<>>}
    ELSE LET shorter == SeqsUpTo(S, n - 1)
         IN  shorter \cup {Append(q, x) : q \in shorter, x \in S}

DirectResponses ==
    FailResponses \cup {Response(StatusOK, Table(rows)) : rows \in SeqsUpTo(RowPool, MaxRows)}

\* ---------------------------------------------------------------- state
VARIABLES
    today,          \* datetime.date.today()
    pages,          \* the pages the site may serve
    site,           \* the page the site served, by the parities of the date
    pc,             \* the statement the program is at
    caller,         \* who called fetch_data: "main" or "direct"
    end,            \* end_year, end_month, end_day
    year, month, day,
    month_end, day_end,
    monthly_data,   \* the list of the month's daily DataFrames
    df_day,         \* what fetch_data returned
    args,           \* fetch_data's year, month, day
    response,       \* what requests.get returned
    slept,          \* seconds slept since the last GET completed
    inflight,       \* GETs issued and not yet answered
    files,          \* the files of the working directory, by name
    writes,         \* the names given to to_csv, in order
    log,            \* what was printed, in order
    calls,          \* the dates fetch_data was called with, in order
    returns,        \* what each returned call of fetch_data returned, in order
    gets            \* the URLs requested, in order

vars ==
    <<today, pages, site, pc, caller, end, year, month, day, month_end, day_end,
      monthly_data, df_day, args, response, slept, inflight, files, writes,
      log, calls, returns, gets>>

mainVars == <<end, year, month, day, month_end, day_end, monthly_data, files, writes>>

NoResponse == Response(0, NoTable)

InitCommon ==
    /\ site = <<>>
    /\ end = <<0, 0, 0>>
    /\ year = 0 /\ month = 0 /\ day = 0
    /\ month_end = 0 /\ day_end = 0
    /\ monthly_data = <<>>
    /\ df_day = None
    /\ response = NoResponse
    /\ slept = 0
    /\ inflight = 0
    /\ files = <<>>
    /\ writes = <<>>
    /\ log = <<>>
    /\ gets = <<>>
    /\ returns = <<>>

InitMain ==
    /\ pc = "main"
    /\ caller = "main"
    /\ args = <<0, 0, 0>>
    /\ calls = <<>>
    /\ InitCommon

\* Before main() runs: a short run, against a site that may serve any page, or
\* a run into the next year, against a site that answers every request 404.
Init ==
    /\ \/ today \in ShortRunDates /\ pages = Responses
       \/ today = <<start_year + 1, 1, 1>> /\ pages = {Response(404, Table(TableData))}
    /\ InitMain

\* Before main() runs: a short or a long run, against a site that never serves
\* data (short runs: the error page or the page without a table; long runs:
\* the page without a table).
InitCalendar ==
    /\ \/ today \in ShortRunDates /\ pages \in {{r} : r \in FailResponses}
       \/ today \in LongRunDates /\ pages = {Response(StatusOK, NoTable)}
    /\ InitMain

\* fetch_data(year, month, day) called on its own.
InitDirect ==
    /\ today \in DirectDates
    /\ pages \in {{r} : r \in DirectResponses}
    /\ pc = "fetch_data"
    /\ caller = "direct"
    /\ args = today
    /\ calls = <<today>>
    /\ InitCommon

\* ----------------------------------------------------------------- main
\* lines 70-79: read the clock, enter the loop over the years
MainStart ==
    /\ pc = "main"
    /\ end' = today
    /\ year' = start_year
    /\ pc' = "for_year"
    /\ UNCHANGED <<today, pages, site, caller, month, day, month_end, day_end, monthly_data,
                   df_day, args, response, slept, inflight, files, writes, log,
                   calls, gets, returns>>

month_start_of(y) == IF y > start_year THEN 1 ELSE start_month

month_end_of(y, e) == IF y < e[1] THEN 12 ELSE e[2]

\* lines 79-83: for year in range(start_year, end_year + 1)
ForYear ==
    /\ pc = "for_year"
    /\ IF year > end[1]
       THEN /\ pc' = "exit"
            /\ UNCHANGED <<month, month_end>>
       ELSE /\ month' = month_start_of(year)
            /\ month_end' = month_end_of(year, end)
            /\ pc' = "for_month"
    /\ UNCHANGED <<today, pages, site, caller, end, year, day, day_end, monthly_data, df_day,
                   args, response, slept, inflight, files, writes, log, calls, gets, returns>>

\* the month is always fetched to its last day
day_end_of_whole_month(y, m, e) == monthrange(y, m)

day_end_of(y, m, e) == IF y = e[1] /\ m = e[2] THEN e[3] ELSE monthrange(y, m)

\* the list is created once, outside the loop over the months
NewMonthlyData_kept(old) == old

\* monthly_data = [] at the top of the month's iteration
NewMonthlyData(old) == <<>>

\* lines 83-93: for month in range(month_start, month_end + 1)
ForMonth ==
    /\ pc = "for_month"
    /\ IF month > month_end
       THEN /\ year' = year + 1
            /\ pc' = "for_year"
            /\ UNCHANGED <<day, day_end, monthly_data>>
       ELSE /\ day_end' = day_end_of(year, month, end)
            /\ monthly_data' = NewMonthlyData(monthly_data)
            /\ day' = 1
            /\ pc' = "for_day"
            /\ UNCHANGED year
    /\ UNCHANGED <<today, pages, site, caller, end, month, month_end, df_day, args, response,
                   slept, inflight, files, writes, log, calls, gets, returns>>

\* the loop stops one day early
DayLoopDone_early(d, last) == d >= last

\* range(1, day_end + 1) is exhausted
DayLoopDone(d, last) == d > last

\* lines 93-95: for day in range(1, day_end + 1): print, call fetch_data
ForDay ==
    /\ pc = "for_day"
    /\ IF DayLoopDone(day, day_end)
       THEN /\ pc' = "save"
            /\ UNCHANGED <<args, calls, log>>
       ELSE /\ log' = Append(log, <<"fetching", year, month, day>>)
            /\ args' = <<year, month, day>>
            /\ calls' = Append(calls, <<year, month, day>>)
            /\ pc' = "fetch_data"
    /\ UNCHANGED <<today, pages, site, caller, end, year, month, day, month_end, day_end,
                   monthly_data, df_day, response, slept, inflight, files, writes, gets, returns>>

\* ----------------------------------------------------------- fetch_data
\* the delay may be as short as nothing
Delays_from_zero == 0..MaxDelay

\* random.uniform(1, 3), in whole seconds
Delays == MinDelay..MaxDelay

\* lines 27-31: build the URL, print it, sleep random.uniform(1, 3)
FetchSleep ==
    /\ pc = "fetch_data"
    /\ log' = Append(log, <<"request_url", Url(args[1], args[2], args[3])>>)
    /\ \E delay \in Delays : slept' = slept + delay
    /\ pc' = "get"
    /\ UNCHANGED <<today, pages, site, caller, df_day, args, response, inflight, calls, gets, returns>>
    /\ UNCHANGED mainVars

\* line 33: requests.get(url) sends the request
FetchGet ==
    /\ pc = "get"
    /\ gets' = Append(gets, Url(args[1], args[2], args[3]))
    /\ inflight' = inflight + 1
    /\ pc' = "wait"
    /\ UNCHANGED <<today, pages, site, caller, df_day, args, response, slept, log, calls, returns>>
    /\ UNCHANGED mainVars

\* lines 33-67: the response arrives; check the status, find the table, build
\* the DataFrame, return
FetchReturn ==
    /\ pc = "wait"
    /\ LET k == SiteKey(args[2], args[3])
       IN  \E resp \in (IF k \in DOMAIN site THEN {site[k]} ELSE pages) :
               /\ site' = (k :> resp) @@ site
               /\ response' = resp
               /\ df_day' = FetchResult(args[1], args[2], args[3], resp)
               /\ log' = log \o FetchLog(args[1], args[2], args[3], resp)
    /\ inflight' = inflight - 1
    /\ slept' = 0
    /\ pc' = IF caller = "main" THEN "collect" ELSE "exit"
    /\ returns' = Append(returns, df_day')
    /\ UNCHANGED <<today, pages, caller, args, calls, gets>>
    /\ UNCHANGED mainVars

\* line 33: requests.get raises (no connection, a broken response); nothing
\* catches the exception and the program ends
FetchRaise ==
    /\ pc = "wait"
    /\ inflight' = inflight - 1
    /\ pc' = "crashed"
    /\ UNCHANGED <<today, pages, site, caller, df_day, args, response, slept, log,
                   calls, returns, gets>>
    /\ UNCHANGED mainVars

\* -------------------------------------------------------- main, continued
\* the empty DataFrame is kept too
HasData_keeps_empty(df) == df # None

\* df_day is not None and not df_day.empty
HasData(df) == df # None /\ ~Empty(df)

\* lines 96-99: keep the day's DataFrame unless it is None or empty
Collect ==
    /\ pc = "collect"
    /\ IF HasData(df_day)
       THEN /\ monthly_data' = Append(monthly_data, df_day)
            /\ UNCHANGED log
       ELSE /\ log' = Append(log, <<"no_data", year, month, day>>)
            /\ UNCHANGED monthly_data
    /\ day' = day + 1
    /\ pc' = "for_day"
    /\ UNCHANGED <<today, pages, site, caller, end, year, month, month_end, day_end, df_day,
                   args, response, slept, inflight, files, writes, calls, gets, returns>>

\* lines 101-108: write the month's file, or print that the month has no data
Save ==
    /\ pc = "save"
    /\ IF monthly_data # <<>>
       THEN LET filename == Filename(year, month)
            IN  /\ files' = (filename :> to_csv(concat(monthly_data))) @@ files
                /\ writes' = Append(writes, filename)
                /\ log' = Append(log, <<"saved", filename>>)
       ELSE /\ log' = Append(log, <<"month_failed", year, month>>)
            /\ UNCHANGED <<files, writes>>
    /\ month' = month + 1
    /\ pc' = "for_month"
    /\ UNCHANGED <<today, pages, site, caller, end, year, day, month_end, day_end,
                   monthly_data, df_day, args, response, slept, inflight, calls, gets, returns>>

Next ==
    \/ MainStart
    \/ ForYear
    \/ ForMonth
    \/ ForDay
    \/ FetchSleep
    \/ FetchGet
    \/ FetchReturn
    \/ FetchRaise
    \/ Collect
    \/ Save

Spec == Init /\ [][Next]_vars

SpecCalendar == InitCalendar /\ [][Next]_vars

NextDirect ==
    \/ FetchSleep
    \/ FetchGet
    \/ FetchReturn
    \/ FetchRaise

SpecDirect == InitDirect /\ [][NextDirect]_vars

\* ------------------------------------------------------ claims: helpers
\* a is on or before b
DateLE(a, b) ==
    \/ a[1] < b[1]
    \/ a[1] = b[1] /\ a[2] < b[2]
    \/ a[1] = b[1] /\ a[2] = b[2] /\ a[3] <= b[3]

\* The calls of fetch_data that main() has finished handling.
Collected ==
    IF pc \in {"fetch_data", "get", "wait", "crashed", "collect"}
    THEN Len(calls) - 1 ELSE Len(calls)

\* The months main() entered, and those it has left.
MonthsEntered == {<<calls[i][1], calls[i][2]>> : i \in 1..Len(calls)}

MonthLeft(ym) == ym[1] < year \/ (ym[1] = year /\ ym[2] < month)

\* The records fetch_data returned for call i (none when it returned None).
Returned(i) == IF returns[i].none THEN <<>> ELSE returns[i].rows

\* The calls of a month, in the order they were made.
CallsOf(ym) == {i \in 1..Len(calls) : calls[i][1] = ym[1] /\ calls[i][2] = ym[2]}

\* The last two and the last four decimal digits of a number.
Digits2(n) == <<DigitChars[((n \div 10) % 10) + 1], DigitChars[(n % 10) + 1]>>

Digits4(n) == Digits2(n \div 100) \o Digits2(n)

\* The eight decimal digits of year * 10000 + month * 100 + day.
YYYYMMDD(t) == Digits4(t[1]) \o Digits4(t[2] * 100 + t[3])

\* The six decimal digits of year * 100 + month.
YYYYMM(ym) == Digits4(ym[1]) \o Digits2(ym[2])

CsvName(ym) == YYYYMM(ym) \o <<".", "c", "s", "v">>

\* ------------------------------------------------------------------- C1
\* C1: for a run date on or after 2009-01-01, the dates main() calls fetch_data
\* with are the calendar days from 2009-01-01 on, one after the other with no
\* day left out or repeated, none after the run date, and when main() ends the
\* last of them is the run date.
C1_EveryDayOnce ==
    /\ \A i \in 1..Len(calls) :
           /\ calls[i] = (IF i = 1 THEN <<2009, 1, 1>> ELSE NextDate(calls[i - 1]))
           /\ DateLE(calls[i], today)
    /\ pc = "exit" => (calls # <<>> /\ calls[Len(calls)] = today)

\* A run across the change of year has ended: 366 calls, the last two for
\* 2009-12-31 and 2010-01-01.
C1_Witness ==
    /\ pc = "exit"
    /\ today = <<2010, 1, 1>>
    /\ Len(calls) = 366
    /\ calls[365] = <<2009, 12, 31>>
    /\ calls[366] = <<2010, 1, 1>>

\* ------------------------------------------------------------------- C2
\* C2: once main() has left a month, the file YYYYMM.csv of that month exists
\* if and only if fetch_data returned at least one record for a day of it; no
\* other file exists, and no file has zero data rows.
C2_FileIffRecords ==
    /\ \A ym \in MonthsEntered :
           MonthLeft(ym) =>
               ((CsvName(ym) \in DOMAIN files) <=> (\E i \in CallsOf(ym) : Returned(i) # <<>>))
    /\ \A f \in DOMAIN files :
           /\ \E ym \in MonthsEntered : f = CsvName(ym)
           /\ Len(files[f].lines) >= 2

\* January, whose days gave an error status or an empty table, has no file;
\* February, which had records, has one.
C2_Witness ==
    /\ pc = "exit"
    /\ today = <<2009, 2, 2>>
    /\ site[<<1, 1>>].status = 404
    /\ site[<<1, 0>>] = Response(StatusOK, Table(TableNoData))
    /\ DOMAIN files = {CsvName(<<2009, 2>>)}

\* ------------------------------------------------------------------- C3
\* The records fetch_data returned for day d of a month, and for the days from
\* d to the end of the month, in day order.
DayRows(ym, d) ==
    LET I == {i \in 1..Len(returns) : calls[i] = <<ym[1], ym[2], d>>}
    IN  IF I = {} THEN <<>> ELSE Returned(CHOOSE i \in I : TRUE)

RECURSIVE MonthRows(_, _)
MonthRows(ym, d) == IF d > 31 THEN <<>> ELSE DayRows(ym, d) \o MonthRows(ym, d + 1)

\* C3: a month's file holds one header row, then the records fetch_data
\* returned for the month's days, day after day in increasing day order, each
\* day's records in the order fetch_data returned them and nothing else.
C3_FileIsConcatenation ==
    \A ym \in MonthsEntered :
        CsvName(ym) \in DOMAIN files =>
            LET lines == files[CsvName(ym)].lines
            IN  /\ lines = <<Columns>> \o MonthRows(ym, 1)
                /\ \A k \in 2..Len(lines) : lines[k] # Columns

\* January: the odd days gave 2 records each and the even days no table, 32
\* data rows; February: day 1 gave 2 records and day 2 gave 1, 3 data rows.
C3_Witness ==
    /\ pc = "exit"
    /\ today = <<2009, 2, 2>>
    /\ site[<<1, 1>>] = Response(StatusOK, Table(TableData))
    /\ site[<<1, 0>>] = Response(StatusOK, NoTable)
    /\ Len(Returned(32)) = 2 /\ Len(Returned(33)) = 1
    /\ Len(files[CsvName(<<2009, 1>>)].lines) = 33
    /\ Len(files[CsvName(<<2009, 2>>)].lines) = 4

\* ------------------------------------------------------------------- C4
\* The text holds the two characters of the header marker side by side.
HasMarker(t) == \E i \in 1..(Len(t) - 1) : t[i] = "JI" /\ t[i + 1] = "FUN"

\* The row has a cell, its first cell is free of the marker, it has 11 cells.
Qualifies(row) == Len(row) >= 1 /\ ~HasMarker(get_text(row[1])) /\ Len(row) >= 11

IsHeader(row) == Len(row) >= 1 /\ HasMarker(get_text(row[1]))

IsValid(row) == Len(row) >= 11 /\ ~IsHeader(row)

ResponseOf(i) == site[SiteKey(calls[i][2], calls[i][3])]

\* The URL of a date, digit by digit.
UrlOf(t) ==
    [prec_no |-> <<"4", "4">>, block_no |-> <<"4", "7", "6", "6", "2">>,
     year |-> Digits4(t[1]), month |-> Digits2(t[2]), day |-> Digits2(t[3])]

\* No file and no DataFrame of the month's list holds a record of the date.
NothingStored(t) ==
    LET date == YYYYMMDD(t)
    IN  /\ \A f \in DOMAIN files :
               \A k \in 2..Len(files[f].lines) : files[f].lines[k][1] # date
        /\ \A a \in 1..Len(monthly_data) :
               \A k \in 1..Len(monthly_data[a].rows) : monthly_data[a].rows[k][1] # date

\* C6: a day whose GET was answered with a status other than 200 returns None
\* from fetch_data, has no record in any file or in the month's list, had
\* exactly one GET (its URL was requested, and no URL was requested twice), and does not stop the run: main() can go on from it, at the
\* end of the run the following day has been fetched too, and a run that ended
\* in an exception ended in a GET that was never answered.
C6_FailedDaySkipped ==
    /\ LET requested == {gets[k] : k \in 1..Len(gets)}
       IN  /\ Cardinality(requested) = Len(gets)
           /\ \A i \in 1..Len(returns) :
                  ResponseOf(i).status # 200 =>
                      /\ returns[i].none
                      /\ NothingStored(calls[i])
                      /\ UrlOf(calls[i]) \in requested
                      /\ (pc = "exit" /\ calls[i] # today) =>
                             (i < Len(calls) /\ calls[i + 1] = NextDate(calls[i]))
    /\ (pc = "collect" /\ response.status # 200) => ENABLED Collect
    /\ pc = "crashed" => Len(returns) = Len(calls) - 1

\* The odd days of January were answered 404 and the even days gave records:
\* the run went on to February 2, and January's file holds the 15 even days.
C6_Witness ==
    /\ pc = "exit"
    /\ today = <<2009, 2, 2>>
    /\ site[<<1, 1>>].status = 404
    /\ site[<<1, 0>>] = Response(StatusOK, Table(TableData))
    /\ Len(gets) = 33
    /\ Len(files[CsvName(<<2009, 1>>)].lines) = 31

\* ------------------------------------------------------------------- C7
\* The lines of one kind that were printed.
LogOf(kind) == {log[k] : k \in {k \in 1..Len(log) : log[k][1] = kind}}

\* A row that is not a header row and has fewer than 11 cells.
IsShort(row) == Len(row) >= 1 /\ Len(row) < 11 /\ ~IsHeader(row)

HasShortRow(resp) ==
    /\ resp.status = 200
    /\ resp.table.found
    /\ \E k \in 1..Len(resp.table.rows) : IsShort(resp.table.rows[k])

\* C7 as claimed: a day with a non-200 response, with no table, or with a short
\* row contributes zero records.
C7_AllThreeAlike ==
    \A i \in 1..Len(returns) :
        (\/ ResponseOf(i).status # 200
         \/ ~ResponseOf(i).table.found
         \/ HasShortRow(ResponseOf(i))) => Returned(i) = <<>>

\* C7, amended: a non-200 response and a missing table are handled alike:
\* fetch_data prints its message and returns None.  A short row is dropped
\* without a message and the qualifying rows of its table still give their
\* records.  In all three cases main() prints its no-data message exactly when
\* the day gave no record, such a day has no record stored, and the run goes
\* on to the run date.
C7_ShortRowOnlyDropped ==
    /\ LET failures == LogOf("fetch_failed")
           missings == LogOf("table_not_found")
           nodatas == LogOf("no_data")
       IN  \A i \in 1..Len(returns) :
               LET r == ResponseOf(i)
                   t == calls[i]
                   failed == <<"fetch_failed", t[1], t[2], t[3], r.status>>
                   missing == <<"table_not_found", t[1], t[2], t[3]>>
               IN  /\ r.status # 200 =>
                          (returns[i].none /\ failed \in failures /\ missing \notin missings)
                   /\ (r.status = 200 /\ ~r.table.found) =>
                          (returns[i].none /\ missing \in missings /\ failed \notin failures)
                   /\ (r.status = 200 /\ r.table.found) =>
                          /\ ~returns[i].none
                          /\ Len(Returned(i)) = Len(SelectSeq(r.table.rows, Qualifies))
                          /\ failed \notin failures /\ missing \notin missings
                   /\ i <= Collected =>
                          /\ <<"no_data", t[1], t[2], t[3]>> \in nodatas <=> (Returned(i) = <<>>)
                          /\ Returned(i) = <<>> => NothingStored(t)
    /\ pc = "exit" => (Len(returns) = Len(calls) /\ calls[Len(calls)] = today)

\* A run to February 2 that met all of it: a table with a short row and two
\* records, a 404, a missing table, and a table with no qualifying row.
C7_Witness ==
    /\ pc = "exit"
    /\ today = <<2009, 2, 2>>
    /\ site[<<1, 1>>] = Response(StatusOK, Table(TableData))
    /\ HasShortRow(site[<<1, 1>>]) /\ Len(Returned(1)) = 2
    /\ site[<<1, 0>>].status = 404
    /\ site[<<0, 1>>] = Response(StatusOK, NoTable)
    /\ site[<<0, 0>>] = Response(StatusOK, Table(TableNoData))
    /\ <<"no_data", 2009, 2, 2>> \in LogOf("no_data")

\* ------------------------------------------------------------------- C8
\* C8: at most one GET is in flight, and only while fetch_data waits for its
\* response; whenever a GET is about to be sent or is in flight, between 1 and
\* 3 seconds have been slept since the previous GET completed; and every GET
\* sent so far belongs to its own call of fetch_data.
C8_DelayBeforeEveryGet ==
    /\ inflight \in {0, 1}
    /\ inflight = 1 <=> pc = "wait"
    /\ pc \in {"get", "wait"} => (slept >= 1 /\ slept <= 3)
    /\ pc \notin {"get", "wait", "crashed"} => slept = 0
    /\ Len(gets) = (IF pc \in {"fetch_data", "get"} THEN Len(calls) - 1 ELSE Len(calls))

\* The GET of February 1 is in flight after a 3-second delay, the day before
\* (the last of January) having failed with a 404.
C8_Witness ==
    /\ pc = "wait"
    /\ args = <<2009, 2, 1>>
    /\ response.status = 404
    /\ slept = 3
    /\ Len(gets) = 32

\* ------------------------------------------------------------------- C9
\* The last day of a month that the run fetches.
LastDayInRange(ym) ==
    IF ym = <<today[1], today[2]>> THEN today[3] ELSE monthrange(ym[1], ym[2])

\* C9: while main() is inside a month (from the first day's fetch up to the
\* write) the month has no file; a file that exists is one of a month main()
\* has left, all of whose days in range have been fetched; and every month
\* main() has left that had records has its file.
C9_NoFileBeforeMonthEnds ==
    /\ pc \in {"for_day", "fetch_data", "get", "wait", "crashed", "collect", "save"} =>
           CsvName(<<year, month>>) \notin DOMAIN files
    /\ \A f \in DOMAIN files :
           \E ym \in MonthsEntered :
               /\ f = CsvName(ym)
               /\ MonthLeft(ym)
               /\ \A d \in 1..LastDayInRange(ym) :
                      \E i \in 1..Len(returns) : calls[i] = <<ym[1], ym[2], d>>
    /\ \A ym \in MonthsEntered :
           (MonthLeft(ym) /\ \E i \in CallsOf(ym) : Returned(i) # <<>>) =>
               CsvName(ym) \in DOMAIN files

\* February 2 has just been fetched with records, February 1 is in the list,
\* and the only file is January's.
C9_Witness ==
    /\ pc = "collect"
    /\ year = 2009 /\ month = 2 /\ day = 2
    /\ monthly_data # <<>>
    /\ ~df_day.none /\ df_day.rows # <<>>
    /\ DOMAIN files = {CsvName(<<2009, 1>>)}

\* ------------------------------------------------------------------ C10
\* C10: every data row of a file starts with a date whose first six
\* characters are the first six of the file's name; the month's list holds
\* only records of the month main() is in, and is empty when its first day is
\* about to be fetched; and no file name was given to to_csv twice.
C10_NoLeakAcrossMonths ==
    /\ \A f \in DOMAIN files :
           \A k \in 2..Len(files[f].lines) :
               SubSeq(files[f].lines[k][1], 1, 6) = SubSeq(f, 1, 6)
    /\ pc \in {"for_day", "fetch_data", "get", "wait", "crashed", "collect", "save"} =>
           \A a \in 1..Len(monthly_data) :
               \A k \in 1..Len(monthly_data[a].rows) :
                   SubSeq(monthly_data[a].rows[k][1], 1, 6) = YYYYMM(<<year, month>>)
    /\ (pc = "for_day" /\ day = 1) => monthly_data = <<>>
    /\ \A a, b \in 1..Len(writes) : a # b => writes[a] # writes[b]
    /\ DOMAIN files = {writes[a] : a \in 1..Len(writes)}

\* Both months of a run to February 2 had records: two files, written once
\* each.
C10_Witness ==
    /\ pc = "exit"
    /\ today = <<2009, 2, 2>>
    /\ writes = <<CsvName(<<2009, 1>>), CsvName(<<2009, 2>>)>>
    /\ Len(files[CsvName(<<2009, 1>>)].lines) > 1
    /\ Len(files[CsvName(<<2009, 2>>)].lines) > 1

=============================================================================
